---------------------------- MODULE Spec2Model ----------------------------
(***************************************************************************)
(* PyStoreJSON: a schema-less tabular store kept as one JSON document per  *)
(* table (src/PyStoreJSONLib/PyStoreJSON.py, class PyStoreJSONDB), and the *)
(* manager of the tables of one directory                                  *)
(* (src/PyStoreJSONLib/PyStoreManager.py, class PyStoreManager).           *)
(*                                                                         *)
(* A row is a Python dict: an ordered mapping, modelled as a sequence of   *)
(* items [k |-> column name, v |-> value] with pairwise distinct k.  A     *)
(* table is a sequence of rows.  The backing file holds the JSON document  *)
(* json.dump wrote; every operation starts with _load and every mutating   *)
(* operation ends with _save.                                              *)
(***************************************************************************)
EXTENDS Integers, Sequences, FiniteSets, TLC

VARIABLES
    file,    \* content of the backing file: a JSON array of JSON objects
    op,      \* name of the operation that completed last ("init" at start)
    args,    \* its arguments
    ret,     \* its return value
    wrote,   \* TRUE iff the operation called _save
    pre,     \* rows the operation's _load returned (the table at call time)
    budget,  \* number of calls the caller still makes
    seen,    \* column names of all the rows passed to insert so far
    pc,      \* interleaved callers: position of each caller in its operation
    req,     \* interleaved callers: the operation each caller is running
    loc,     \* interleaved callers: the `data` local of each caller
    log,     \* interleaved callers: the calls completed, in order of their end
    files,      \* PyStoreManager: the <name>.json files of the directory
    databases,  \* PyStoreManager: the names cached in self.databases
    dropped,    \* PyStoreManager: rows each table held when it was last deleted
    known       \* PyStoreManager: how each name came to have a file, if it has

vars == <<file, op, args, ret, wrote, pre, budget, seen, pc, req, loc, log,
          files, databases, dropped, known>>

---------------------------------------------------------------------------
(* Bounds of the model *)

\* longest sequence of calls made on one store
MaxCalls == 2

\* largest table sort is applied to on its own
MaxSortRows == 3

\* number of calls the interleaved callers make in all
MaxRaceCalls == 3

\* longest sequence of insert calls made on a store that starts empty
MaxInserts == 3

\* largest table the read-only operations are applied to on their own
MaxReadRows == 3

\* longest sequence of calls made on one manager
MaxManagerCalls == 3

\* longest sequence of calls made on a manager and on the stores it returned,
\* after the call that returned the first store
MaxStoreCalls == 2

---------------------------------------------------------------------------
(* Python values held in a row: None, int, str (a str is its code points) *)

PyNone == [kind |-> "NoneType", n |-> 0, s |-> <<>>]
PyInt(i) == [kind |-> "int", n |-> i, s |-> <<>>]
PyStr(cs) == [kind |-> "str", n |-> 0, s |-> cs]

\* Python's == on None / int / str: equal kind and equal content
PyEq(v, w) == v = w

Columns == {"a", "b", "c"}

---------------------------------------------------------------------------
(* dict primitives *)

Item(k, v) == [k |-> k, v |-> v]

\* row.keys()
DictKeys(row) == {row[i].k : i \in DOMAIN row}

\* row.get(key) / row.get(key, None)
DictGet(row, key) ==
    IF \E i \in DOMAIN row : row[i].k = key
    THEN row[CHOOSE i \in DOMAIN row : row[i].k = key].v
    ELSE PyNone

\* row[key] = value: in place when the key exists, appended otherwise
DictSet(row, key, value) ==
    IF key \in DictKeys(row)
    THEN [i \in DOMAIN row |-> IF row[i].k = key THEN Item(key, value) ELSE row[i]]
    ELSE Append(row, Item(key, value))

\* row.pop(key, None): the row without the key
DictPop(row, key) == SelectSeq(row, LAMBDA e : e.k # key)

\* row.update(updates): items of updates in their order
RECURSIVE DictUpdate(_, _)
DictUpdate(row, updates) ==
    IF updates = <<>> THEN row
    ELSE DictUpdate(DictSet(row, Head(updates).k, Head(updates).v), Tail(updates))

\* for key in keys: if key not in row: row[key] = None
RECURSIVE FillMissing(_, _)
FillMissing(row, keys) ==
    IF keys = <<>> THEN row
    ELSE FillMissing(IF Head(keys) \in DictKeys(row) THEN row
                     ELSE DictSet(row, Head(keys), PyNone), Tail(keys))

\* union of the key sets of the rows of data
AllKeys(data) == UNION {DictKeys(data[i]) : i \in DOMAIN data}

\* The orders in which iterating a Python set of strings can yield its
\* members (hash order: fixed for one set object, not determined by content)
IterOrders(S) ==
    {o \in [1..Cardinality(S) -> S] : \A i, j \in DOMAIN o : i # j => o[i] # o[j]}

---------------------------------------------------------------------------
(* JSON document <-> rows *)

JNull == [type |-> "null", num |-> 0, str |-> <<>>]

\* json.dump of one value
JsonEncodeValue(v) ==
    IF v.kind = "NoneType" THEN JNull
    ELSE IF v.kind = "int" THEN [type |-> "number", num |-> v.n, str |-> <<>>]
    ELSE [type |-> "string", num |-> 0, str |-> v.s]

\* json.load of one value
JsonDecodeValue(j) ==
    IF j.type = "null" THEN PyNone
    ELSE IF j.type = "number" THEN PyInt(j.num)
    ELSE PyStr(j.str)

\* json.dump(data, f): array of objects, members in dict order
_save(data) ==
    [i \in DOMAIN data |->
        [m \in DOMAIN data[i] |->
            [name |-> data[i][m].k, value |-> JsonEncodeValue(data[i][m].v)]]]

\* json.load(f)
_load(doc) ==
    [i \in DOMAIN doc |->
        [m \in DOMAIN doc[i] |-> Item(doc[i][m].name, JsonDecodeValue(doc[i][m].value))]]

---------------------------------------------------------------------------
(* PyStoreJSONDB: the handlers' work on the loaded `data` *)

\* _prune_empty_columns dropping also the rows it leaves without a column
_prune_empty_columns_rows(data) ==
    IF data = <<>> THEN data
    ELSE LET all_keys == AllKeys(data)
             empty_keys == {key \in all_keys :
                              \A i \in DOMAIN data : DictGet(data[i], key) = PyNone}
         IN  SelectSeq([n \in DOMAIN data |->
                           SelectSeq(data[n], LAMBDA e : e.k \notin empty_keys)],
                       LAMBDA row : row # <<>>)

\* _prune_empty_columns with any(...) for all(...): a column goes as soon as
\* one row holds None in it
_prune_empty_columns_any(data) ==
    IF data = <<>> THEN data
    ELSE LET all_keys == AllKeys(data)
             empty_keys == {key \in all_keys :
                              \E i \in DOMAIN data : DictGet(data[i], key) = PyNone}
         IN  [n \in DOMAIN data |->
                SelectSeq(data[n], LAMBDA e : e.k \notin empty_keys)]

\* _prune_empty_columns: drop the columns that are None or missing in every row
_prune_empty_columns(data) ==
    IF data = <<>> THEN data
    ELSE LET all_keys == AllKeys(data)
             empty_keys == {key \in all_keys :
                              \A i \in DOMAIN data : DictGet(data[i], key) = PyNone}
         IN  [n \in DOMAIN data |->
                SelectSeq(data[n], LAMBDA e : e.k \notin empty_keys)]

\* insert: rows = [row] if isinstance(row, dict) else row
NormalizeRows(row) == IF row.isdict THEN <<row.val>> ELSE row.val

\* insert without the pass over the existing rows (lines 100-103)
insert_data_new_only(data, rows, order) ==
    data \o [n \in DOMAIN rows |-> FillMissing(rows[n], order)]

\* insert putting the new rows before the stored ones
insert_data_prepend(data, rows, order) ==
    [n \in DOMAIN rows |-> FillMissing(rows[n], order)]
        \o [n \in DOMAIN data |-> FillMissing(data[n], order)]

\* insert without the pass over the new rows (lines 107-109)
insert_data_unfilled(data, rows, order) ==
    [n \in DOMAIN data |-> FillMissing(data[n], order)] \o rows

\* insert, lines 90-110; order is the iteration order of the set all_keys
insert_data(data, rows, order) ==
    [n \in DOMAIN data |-> FillMissing(data[n], order)]
        \o [n \in DOMAIN rows |-> FillMissing(rows[n], order)]

\* for k in new_keys: row[k] = None
RECURSIVE SetNone(_, _)
SetNone(row, keys) ==
    IF keys = <<>> THEN row
    ELSE SetNone(DictSet(row, Head(keys), PyNone), Tail(keys))

\* the pass updating every row, matching or not
ApplyUpdate_all(data, key, value, updates) ==
    [n \in DOMAIN data |-> DictUpdate(data[n], updates)]

\* one pass of "for row in data: if row.get(key) == value: row.update(updates)"
ApplyUpdate(data, key, value, updates) ==
    [n \in DOMAIN data |->
        IF PyEq(DictGet(data[n], key), value)
        THEN DictUpdate(data[n], updates)
        ELSE data[n]]

\* the number of rows that pass counts (count += 1)
CountMatches(data, key, value) ==
    Cardinality({i \in DOMAIN data : PyEq(DictGet(data[i], key), value)})

\* update_by counting the rows the patch changed instead of the rows matched
update_by_data_changed(data, key, value, updates, order) ==
    LET closed == [n \in DOMAIN data |-> SetNone(data[n], order)]
    IN  [data  |-> _prune_empty_columns(ApplyUpdate(closed, key, value, updates)),
         count |-> Cardinality({i \in DOMAIN closed :
                                   /\ PyEq(DictGet(closed[i], key), value)
                                   /\ DictUpdate(closed[i], updates) # closed[i]})]

\* update_by, lines 144-158; order is the iteration order of the set new_keys
update_by_data(data, key, value, updates, order) ==
    LET closed == [n \in DOMAIN data |-> SetNone(data[n], order)]
    IN  [data  |-> _prune_empty_columns(ApplyUpdate(closed, key, value, updates)),
         count |-> CountMatches(closed, key, value)]

\* batch_update_by: conditions = [conditions] if isinstance(conditions, tuple)
NormalizeConditions(conditions) ==
    IF conditions.istuple THEN <<conditions.val>> ELSE conditions.val

\* the conditions applied from the last to the first
RECURSIVE ApplyConditions_reverse(_, _, _)
ApplyConditions_reverse(data, count, conditions) ==
    IF conditions = <<>> THEN [data |-> data, count |-> count]
    ELSE LET c == conditions[Len(conditions)]
         IN  ApplyConditions_reverse(ApplyUpdate(data, c.key, c.value, c.updates),
                                     count + CountMatches(data, c.key, c.value),
                                     SubSeq(conditions, 1, Len(conditions) - 1))

\* batch_update_by, lines 197-201: the conditions applied in order to one data
RECURSIVE ApplyConditions(_, _, _)
ApplyConditions(data, count, conditions) ==
    IF conditions = <<>> THEN [data |-> data, count |-> count]
    ELSE LET c == Head(conditions)
         IN  ApplyConditions(ApplyUpdate(data, c.key, c.value, c.updates),
                             count + CountMatches(data, c.key, c.value),
                             Tail(conditions))

\* keys of all the updates of the conditions
ConditionKeys(conditions) ==
    UNION {DictKeys(conditions[i].updates) : i \in DOMAIN conditions}

\* batch_update_by counting, for every condition, the rows of the loaded
\* snapshot that match it
batch_update_by_data_snapshot(data, conditions, order) ==
    LET closed == [n \in DOMAIN data |-> SetNone(data[n], order)]
        done   == ApplyConditions(closed, 0, conditions)
        SnapshotCount[n \in 0..Len(conditions)] ==
            IF n = 0 THEN 0
            ELSE SnapshotCount[n - 1]
                   + CountMatches(closed, conditions[n].key, conditions[n].value)
    IN  [data |-> _prune_empty_columns(done.data),
         count |-> SnapshotCount[Len(conditions)]]

\* batch_update_by, lines 185-203; order is the iteration order of new_keys
batch_update_by_data(data, conditions, order) ==
    LET closed == [n \in DOMAIN data |-> SetNone(data[n], order)]
        done   == ApplyConditions(closed, 0, conditions)
    IN  [data |-> _prune_empty_columns(done.data), count |-> done.count]

\* delete_by testing row[key] on the rows that have the key only
delete_by_data_present(data, key, value) ==
    LET new_data == SelectSeq(data, LAMBDA row :
                        ~(key \in DictKeys(row) /\ PyEq(DictGet(row, key), value)))
    IN  [data |-> _prune_empty_columns(new_data), count |-> Len(data) - Len(new_data)]

\* delete_by, lines 217-220
delete_by_data(data, key, value) ==
    LET new_data == SelectSeq(data, LAMBDA row : ~PyEq(DictGet(row, key), value))
    IN  [data |-> _prune_empty_columns(new_data), count |-> Len(data) - Len(new_data)]

\* rename_key giving the new key, with None, to the rows without the old key
RenameInRow_all(row, old_key, new_key) ==
    IF old_key \in DictKeys(row)
    THEN DictSet(DictPop(row, old_key), new_key, DictGet(row, old_key))
    ELSE DictSet(row, new_key, PyNone)

\* rename_key, lines 236-239: row[new_key] = row.pop(old_key)
RenameInRow(row, old_key, new_key) ==
    IF old_key \in DictKeys(row)
    THEN DictSet(DictPop(row, old_key), new_key, DictGet(row, old_key))
    ELSE row

rename_key_data(data, old_key, new_key) ==
    [data    |-> [n \in DOMAIN data |-> RenameInRow(data[n], old_key, new_key)],
     renamed |-> \E i \in DOMAIN data : old_key \in DictKeys(data[i])]

\* find_by testing row[key] on the rows that have the key only
find_by_data_present(data, key, value) ==
    SelectSeq(data, LAMBDA row : key \in DictKeys(row) /\ PyEq(DictGet(row, key), value))

\* find_by, line 130
find_by_data(data, key, value) ==
    SelectSeq(data, LAMBDA row : PyEq(DictGet(row, key), value))

\* str < str: lexicographic on code points
RECURSIVE StrLess(_, _)
StrLess(x, y) ==
    IF y = <<>> THEN FALSE
    ELSE IF x = <<>> THEN TRUE
    ELSE IF Head(x) # Head(y) THEN Head(x) < Head(y)
    ELSE StrLess(Tail(x), Tail(y))

\* v < w is defined between two ints and between two strs; every other pair
\* of kinds raises TypeError
Orderable(v, w) == v.kind = w.kind /\ v.kind \in {"int", "str"}

PyLess(v, w) == IF v.kind = "int" THEN v.n < w.n ELSE StrLess(v.s, w.s)

\* sort.safe_sort_key, lines 256-259: the tuple (val is None, val)
safe_sort_key(row, key) ==
    LET val == DictGet(row, key) IN <<val = PyNone, val>>

\* t < u on the key tuples: the first items that differ decide; False < True
TupleLess(t, u) ==
    IF t[1] # u[1] THEN u[1]
    ELSE IF PyEq(t[2], u[2]) THEN FALSE
    ELSE PyLess(t[2], u[2])

\* the comparison raising also between None and a value of another kind
TupleRaises_none(t, u) ==
    ~PyEq(t[2], u[2]) /\ ~Orderable(t[2], u[2])

\* comparing the key tuples t and u raises TypeError
TupleRaises(t, u) ==
    t[1] = u[1] /\ ~PyEq(t[2], u[2]) /\ ~Orderable(t[2], u[2])

\* sorted(data, key=safe_sort_key, reverse=reverse): a stable sort, row i
\* before row j when its key is smaller (greater when reverse), rows with
\* equal keys in their order in data
sorted(data, key, reverse) ==
    LET K(i) == safe_sort_key(data[i], key)
        Before(i, j) == IF reverse THEN TupleLess(K(j), K(i)) ELSE TupleLess(K(i), K(j))
        Pos(i) == 1 + Cardinality({j \in DOMAIN data : Before(j, i)})
                    + Cardinality({j \in DOMAIN data :
                                     j < i /\ ~Before(j, i) /\ ~Before(i, j)})
    IN  [n \in DOMAIN data |-> data[CHOOSE i \in DOMAIN data : Pos(i) = n]]

\* sort, lines 261-266.  The sort cannot finish without comparing some int
\* key with some str key when both occur (no third value orders them: None
\* keys are greater than both), and no other comparison raises; the
\* TypeError is turned into ValueError
sort_data(data, key, reverse) ==
    IF \E i, j \in DOMAIN data :
          TupleRaises(safe_sort_key(data[i], key), safe_sort_key(data[j], key))
    THEN [error |-> "ValueError", rows |-> <<>>]
    ELSE [error |-> "", rows |-> sorted(data, key, reverse)]

\* decimal digits of a natural number, as code points
RECURSIVE Digits(_)
Digits(n) == IF n < 10 THEN <<48 + n>> ELSE Append(Digits(n \div 10), 48 + (n % 10))

\* str(val): "None", the decimal numeral of an int, a str itself
str(val) ==
    CASE val.kind = "NoneType" -> <<78, 111, 110, 101>>
      [] val.kind = "int" -> IF val.n < 0 THEN <<45>> \o Digits(0 - val.n) ELSE Digits(val.n)
      [] val.kind = "str" -> val.s

\* sort_columns.sort_key, lines 284-286: the tuple (val is None, str(val))
sort_key(reference_row, k) ==
    LET val == DictGet(reference_row, k) IN <<val = PyNone, str(val)>>

\* t < u on (bool, str) tuples; never raises
KeyLess(t, u) ==
    IF t[1] # u[1] THEN u[1] ELSE StrLess(t[2], u[2])

\* sorted(reference_row.keys(), key=sort_key, reverse=reverse), line 288
sorted_keys(reference_row, reverse) ==
    LET K(i) == sort_key(reference_row, reference_row[i].k)
        Before(i, j) == IF reverse THEN KeyLess(K(j), K(i)) ELSE KeyLess(K(i), K(j))
        Pos(i) == 1 + Cardinality({j \in DOMAIN reference_row : Before(j, i)})
                    + Cardinality({j \in DOMAIN reference_row :
                                     j < i /\ ~Before(j, i) /\ ~Before(i, j)})
    IN  [n \in DOMAIN reference_row |->
            reference_row[CHOOSE i \in DOMAIN reference_row : Pos(i) = n].k]

\* the rebuilt row taking its values in the order the row held them
Rebuild_positional(row, keys) ==
    [m \in DOMAIN keys |->
        Item(keys[m], IF m \in DOMAIN row THEN row[m].v ELSE PyNone)]

\* {key: row.get(key, None) for key in keys}
Rebuild(row, keys) == [m \in DOMAIN keys |-> Item(keys[m], DictGet(row, keys[m]))]

\* sort_columns rebuilding each row from the sorted keys the row has, leaving
\* out the keys it lacks
sort_columns_data_own(data, row_index, reverse) ==
    IF ~(0 <= row_index /\ row_index < Len(data))
    THEN [error |-> "IndexError", rows |-> <<>>]
    ELSE LET reference_row == data[row_index + 1]
             keys == sorted_keys(reference_row, reverse)
         IN  [error |-> "",
              rows |-> [n \in DOMAIN data |->
                          Rebuild(data[n],
                                  SelectSeq(keys, LAMBDA k : k \in DictKeys(data[n])))]]

\* sort_columns taking a negative row_index as data[row_index] does, from
\* the end of the list
sort_columns_data_wrap(data, row_index, reverse) ==
    IF ~(0 - Len(data) <= row_index /\ row_index < Len(data))
    THEN [error |-> "IndexError", rows |-> <<>>]
    ELSE LET reference_row == data[IF row_index < 0 THEN Len(data) + row_index + 1
                                   ELSE row_index + 1]
             keys == sorted_keys(reference_row, reverse)
         IN  [error |-> "", rows |-> [n \in DOMAIN data |-> Rebuild(data[n], keys)]]

\* sort_columns, lines 278-296; row_index counts from 0
sort_columns_data(data, row_index, reverse) ==
    IF ~(0 <= row_index /\ row_index < Len(data))
    THEN [error |-> "IndexError", rows |-> <<>>]
    ELSE LET reference_row == data[row_index + 1]
             keys == sorted_keys(reference_row, reverse)
         IN  [error |-> "", rows |-> [n \in DOMAIN data |-> Rebuild(data[n], keys)]]

\* a priority: a number of the priority map, or float('inf')
Priority(n) == [inf |-> FALSE, n |-> n]
Infinity == [inf |-> TRUE, n |-> 0]

PriorityLess(p, q) == ~p.inf /\ (q.inf \/ p.n < q.n)

\* sort_columns_by_order, lines 310-313: {key: idx for idx, key in
\* enumerate(column_order)} for a list (a name listed twice keeps its last
\* index), the mapping itself for a dict
priority_map(column_order) ==
    IF column_order.kind = "list"
    THEN LET Enumerated[n \in 0..Len(column_order.val)] ==
                 IF n = 0 THEN <<>>
                 ELSE DictSet(Enumerated[n - 1], column_order.val[n], n - 1)
         IN  Enumerated[Len(column_order.val)]
    ELSE column_order.val

\* sort_columns_by_order.sort_key, lines 317-322
order_sort_key(pmap, k, original_index) ==
    << IF k \in DictKeys(pmap) THEN 0 ELSE 1,
       IF k \in DictKeys(pmap) THEN Priority(DictGet(pmap, k)) ELSE Infinity,
       original_index >>

\* t < u on the (bucket, priority, index) tuples
OrderKeyLess(t, u) ==
    IF t[1] # u[1] THEN t[1] < u[1]
    ELSE IF t[2] # u[2] THEN PriorityLess(t[2], u[2])
    ELSE t[3] < u[3]

\* lines 327-331: the keys of the row sorted by sort_key; original_index
\* counts from 0
keys_by_order(row, pmap) ==
    LET K(i) == order_sort_key(pmap, row[i].k, i - 1)
        Pos(i) == 1 + Cardinality({j \in DOMAIN row : OrderKeyLess(K(j), K(i))})
    IN  [n \in DOMAIN row |-> row[CHOOSE i \in DOMAIN row : Pos(i) = n].k]

\* sort_columns_by_order rebuilding every row from all the listed names, as
\* sort_columns does from the reference row's keys
sort_columns_by_order_data_listed(data, column_order) ==
    IF column_order.kind \notin {"list", "dict"}
    THEN [error |-> "TypeError", rows |-> <<>>]
    ELSE LET pmap == priority_map(column_order)
             listed == [m \in DOMAIN pmap |-> pmap[m].k]
         IN  [error |-> "",
              rows |-> [n \in DOMAIN data |->
                          Rebuild(data[n],
                                  keys_by_order(FillMissing(data[n], listed), pmap))]]

\* sort_columns_by_order, lines 307-335
sort_columns_by_order_data(data, column_order) ==
    IF column_order.kind \notin {"list", "dict"}
    THEN [error |-> "TypeError", rows |-> <<>>]
    ELSE LET pmap == priority_map(column_order)
         IN  [error |-> "",
              rows |-> [n \in DOMAIN data |-> Rebuild(data[n], keys_by_order(data[n], pmap))]]

---------------------------------------------------------------------------
(* Inputs of the calls, and the tables a backing file can hold when the    *)
(* store is opened (PyStoreJSONDB.__init__ writes [] only when the file    *)
(* does not exist; an existing file is used as it is)                      *)

one == PyInt(1)
two == PyInt(2)

Values == {PyNone, one, two}

ten == PyInt(10)
x == PyStr(<<120>>)

\* dict literals
D1(k1, v1) == <<Item(k1, v1)>>
D2(k1, v1, k2, v2) == <<Item(k1, v1), Item(k2, v2)>>
D3(k1, v1, k2, v2, k3, v3) == <<Item(k1, v1), Item(k2, v2), Item(k3, v3)>>

InitTables ==
    { <<>>,
      << D2("a", one, "b", two) >>,
      << D1("a", one), D1("b", two) >>,
      << D2("a", one, "b", one), D2("a", two, "b", one) >>,
      << D2("b", PyNone, "a", one), D1("a", two), D2("a", one, "c", two) >> }

\* the argument of insert: one dict, or a list of dicts
InsertArgs ==
    { [isdict |-> TRUE,  val |-> D1("a", one)],
      [isdict |-> TRUE,  val |-> D2("b", two, "a", two)],
      [isdict |-> TRUE,  val |-> D2("a", two, "c", PyNone)],
      [isdict |-> FALSE, val |-> << D1("a", one), D1("b", one) >>],
      [isdict |-> FALSE, val |-> <<>>] }

\* the (key, value) predicates of find_by, update_by and delete_by
Predicates ==
    { <<"a", one>>, <<"a", two>>, <<"b", PyNone>>, <<"b", two>>, <<"c", PyNone>> }

\* the updates argument of update_by and of a batch condition
UpdateArgs ==
    { <<>>,
      D1("a", two),
      D1("b", PyNone),
      D1("c", one),
      D2("c", PyNone, "a", PyNone) }

Condition(key, value, updates) == [key |-> key, value |-> value, updates |-> updates]

\* the argument of batch_update_by: one tuple, or a list of tuples
BatchArgs ==
    { [istuple |-> TRUE,  val |-> Condition("a", one, D1("c", two))],
      [istuple |-> FALSE, val |-> <<>>],
      [istuple |-> FALSE,
       val |-> << Condition("a", one, D1("a", two)), Condition("a", two, D1("b", one)) >>],
      [istuple |-> FALSE,
       val |-> << Condition("b", PyNone, D1("c", one)), Condition("a", one, D1("c", PyNone)) >>],
      [istuple |-> FALSE,
       val |-> << Condition("a", two, D1("b", PyNone)), Condition("b", PyNone, D1("a", PyNone)) >>],
      [istuple |-> FALSE,
       val |-> << Condition("c", two, D1("c", PyNone)), Condition("a", two, D1("c", one)) >>] }

\* the (old_key, new_key) arguments of rename_key
RenameArgs ==
    { <<"a", "b">>, <<"a", "c">>, <<"b", "a">>, <<"c", "a">>, <<"a", "a">> }

\* rows of the tables sort is applied to: ints, a str ("x"), null, and a
\* row without column a; column b tells rows with equal a apart
SortRows ==
    { D1("a", one), D1("a", two), D1("a", PyNone), D1("b", one),
      D2("a", one, "b", one), D2("a", two, "b", two), D2("a", PyNone, "b", two),
      D2("a", PyStr(<<120>>), "b", one), D1("a", PyStr(<<120, 121>>)) }

SortTables == UNION {[1..n -> SortRows] : n \in 0..MaxSortRows}

\* rows of the tables the read-only operations are applied to: 10 and 2
\* (str(10) < str(2)), equal values, null, a str next to ints, rows lacking
\* columns of other rows
ReadRows ==
    { D2("a", ten, "b", two),
      D2("b", one, "a", one),
      D3("c", PyNone, "a", two, "b", x),
      D1("a", x),
      D2("b", two, "c", one),
      D1("c", PyNone),
      D3("c", two, "b", ten, "a", PyNone) }

ReadTables == UNION {[1..n -> ReadRows] : n \in 0..MaxReadRows}

\* the row_index arguments of sort_columns
RowIndexes == -1..3

\* the column_order arguments of sort_columns_by_order that are sequences of
\* names: lists (one naming a column no row has, one naming a column twice)
\* and a tuple, which is neither list nor dict
SequenceOrders ==
    { [kind |-> "list", val |-> <<>>],
      [kind |-> "list", val |-> <<"a", "b", "c">>],
      [kind |-> "list", val |-> <<"c", "a">>],
      [kind |-> "list", val |-> <<"b", "d">>],
      [kind |-> "list", val |-> <<"a", "b", "a">>],
      [kind |-> "tuple", val |-> <<"a", "b">>] }

\* the column_order arguments that are dicts name -> priority
MappingOrders ==
    { [kind |-> "dict", val |-> D2("a", 2, "b", 1)],
      [kind |-> "dict", val |-> D2("c", 0, "a", 0)] }

Callers == {1, 2}

\* the table names given to the manager
Names == {"t", "u"}

\* a path of the directory: no file, or a file holding a JSON document
Absent == [exists |-> FALSE, doc |-> <<>>]
Stored(doc) == [exists |-> TRUE, doc |-> doc]

\* no manager is in use in the specifications of one store
NoManager ==
    /\ files = [name \in Names |-> Absent]
    /\ databases = {}
    /\ dropped = [name \in Names |-> <<>>]
    /\ known = [name \in Names |-> "none"]

\* the callers are at rest in the sequential specifications
Idle ==
    /\ pc = [c \in Callers |-> "idle"]
    /\ req = [c \in Callers |-> <<>>]
    /\ loc = [c \in Callers |-> <<>>]
    /\ log = <<>>

---------------------------------------------------------------------------
(* One store used by one caller: every operation runs to completion *)

InitWith(tables, calls) ==
    /\ file \in {_save(t) : t \in tables}
    /\ op = "init"
    /\ args = <<>>
    /\ ret = <<>>
    /\ wrote = FALSE
    /\ pre = <<>>
    /\ budget = calls
    /\ seen = {}
    /\ Idle
    /\ NoManager

Init == InitWith(InitTables, MaxCalls)

\* the caller makes another call
Calling == budget > 0

\* what every completed call records
Done(name, a, r, w, data) ==
    /\ budget' = budget - 1
    /\ op' = name
    /\ args' = a
    /\ ret' = r
    /\ wrote' = w
    /\ pre' = data
    /\ UNCHANGED <<pc, req, loc, log, files, databases, dropped, known>>

insert ==
    /\ Calling
    /\ \E row \in InsertArgs :
        LET data == _load(file)
            rows == NormalizeRows(row)
        IN  /\ \E order \in IterOrders(AllKeys(data) \cup AllKeys(rows)) :
                   file' = _save(insert_data(data, rows, order))
            /\ seen' = seen \cup AllKeys(rows)
            /\ Done("insert", [row |-> row], PyNone, TRUE, data)

get_all ==
    /\ Calling
    /\ UNCHANGED <<file, seen>>
    /\ Done("get_all", <<>>, _load(file), FALSE, _load(file))

find_by ==
    /\ Calling
    /\ \E p \in Predicates :
        LET data == _load(file)
        IN  /\ UNCHANGED <<file, seen>>
            /\ Done("find_by", [key |-> p[1], value |-> p[2]],
                    find_by_data(data, p[1], p[2]), FALSE, data)

update_by ==
    /\ Calling
    /\ \E p \in Predicates, updates \in UpdateArgs :
        LET data == _load(file)
            new_keys == DictKeys(updates) \ AllKeys(data)
        IN  \E order \in IterOrders(new_keys) :
                LET r == update_by_data(data, p[1], p[2], updates, order)
                IN  /\ file' = _save(r.data)
                    /\ UNCHANGED seen
                    /\ Done("update_by",
                            [key |-> p[1], value |-> p[2], updates |-> updates],
                            r.count, TRUE, data)

batch_update_by ==
    /\ Calling
    /\ \E conditions \in BatchArgs :
        LET data == _load(file)
            conds == NormalizeConditions(conditions)
            new_keys == ConditionKeys(conds) \ AllKeys(data)
        IN  \E order \in IterOrders(new_keys) :
                LET r == batch_update_by_data(data, conds, order)
                IN  /\ file' = _save(r.data)
                    /\ UNCHANGED seen
                    /\ Done("batch_update_by", [conditions |-> conditions],
                            r.count, TRUE, data)

delete_by ==
    /\ Calling
    /\ \E p \in Predicates :
        LET data == _load(file)
            r == delete_by_data(data, p[1], p[2])
        IN  /\ file' = _save(r.data)
            /\ UNCHANGED seen
            /\ Done("delete_by", [key |-> p[1], value |-> p[2]], r.count, TRUE, data)

rename_key ==
    /\ Calling
    /\ \E p \in RenameArgs :
        LET data == _load(file)
            r == rename_key_data(data, p[1], p[2])
        IN  /\ file' = IF r.renamed THEN _save(r.data) ELSE file
            /\ UNCHANGED seen
            /\ Done("rename_key", [old_key |-> p[1], new_key |-> p[2]],
                    r.renamed, r.renamed, data)

sort ==
    /\ Calling
    /\ \E key \in Columns, reverse \in BOOLEAN :
        LET data == _load(file)
        IN  /\ UNCHANGED <<file, seen>>
            /\ Done("sort", [key |-> key, reverse |-> reverse],
                    sort_data(data, key, reverse), FALSE, data)

\* sort_columns writing the rows it returns to the file
sort_columns_saving ==
    /\ Calling
    /\ \E row_index \in RowIndexes, reverse \in BOOLEAN :
        LET data == _load(file)
            r == sort_columns_data(data, row_index, reverse)
        IN  /\ file' = IF r.error = "" THEN _save(r.rows) ELSE file
            /\ UNCHANGED seen
            /\ Done("sort_columns", [row_index |-> row_index, reverse |-> reverse],
                    r, FALSE, data)

sort_columns ==
    /\ Calling
    /\ \E row_index \in RowIndexes, reverse \in BOOLEAN :
        LET data == _load(file)
        IN  /\ UNCHANGED <<file, seen>>
            /\ Done("sort_columns", [row_index |-> row_index, reverse |-> reverse],
                    sort_columns_data(data, row_index, reverse), FALSE, data)

sort_columns_by_order_call(column_order) ==
    LET data == _load(file)
    IN  /\ UNCHANGED <<file, seen>>
        /\ Done("sort_columns_by_order", [column_order |-> column_order],
                sort_columns_by_order_data(data, column_order), FALSE, data)

sort_columns_by_order ==
    /\ Calling
    /\ \/ \E column_order \in SequenceOrders : sort_columns_by_order_call(column_order)
       \/ \E column_order \in MappingOrders : sort_columns_by_order_call(column_order)

Next ==
    \/ insert
    \/ get_all
    \/ find_by
    \/ update_by
    \/ batch_update_by
    \/ delete_by
    \/ rename_key
    \/ sort

Spec == Init /\ [][Next]_vars

\* a store created empty and used for insert calls only
InitEmpty == InitWith({<<>>}, MaxInserts)

NextInsert == insert

SpecInsert == InitEmpty /\ [][NextInsert]_vars

---------------------------------------------------------------------------
(* Two callers on one backing file.  A mutating call is two steps on the   *)
(* file: _load at its start (lines 85, 141, 177, 216, 233) and _save at    *)
(* its end (lines 112, 159, 204, 221, 242); nothing holds the file in      *)
(* between, so steps of the other caller can fall between the two.         *)

\* the calls the interleaved callers make
RaceRequests ==
    { [op |-> "insert", row |-> [isdict |-> TRUE, val |-> D1("a", one)]],
      [op |-> "insert", row |-> [isdict |-> TRUE, val |-> D1("b", two)]],
      [op |-> "update_by", key |-> "a", value |-> one, updates |-> D1("c", two)],
      [op |-> "batch_update_by",
       conditions |-> [istuple |-> TRUE, val |-> Condition("b", two, D1("b", one))]],
      [op |-> "delete_by", key |-> "a", value |-> one],
      [op |-> "rename_key", old_key |-> "b", new_key |-> "c"] }

\* the results a call can produce from the data it loaded: the rows it
\* saves (save false: it does not call _save) and its return value
Outcomes(r, data) ==
    CASE r.op = "insert" ->
            {[data |-> insert_data(data, NormalizeRows(r.row), order),
              ret |-> PyNone, save |-> TRUE] :
                order \in IterOrders(AllKeys(data) \cup AllKeys(NormalizeRows(r.row)))}
      [] r.op = "update_by" ->
            {[data |-> update_by_data(data, r.key, r.value, r.updates, order).data,
              ret |-> update_by_data(data, r.key, r.value, r.updates, order).count,
              save |-> TRUE] :
                order \in IterOrders(DictKeys(r.updates) \ AllKeys(data))}
      [] r.op = "batch_update_by" ->
            {[data |-> batch_update_by_data(data, NormalizeConditions(r.conditions),
                                            order).data,
              ret |-> batch_update_by_data(data, NormalizeConditions(r.conditions),
                                           order).count,
              save |-> TRUE] :
                order \in IterOrders(ConditionKeys(NormalizeConditions(r.conditions))
                                        \ AllKeys(data))}
      [] r.op = "delete_by" ->
            {[data |-> delete_by_data(data, r.key, r.value).data,
              ret |-> delete_by_data(data, r.key, r.value).count,
              save |-> TRUE]}
      [] r.op = "rename_key" ->
            {[data |-> rename_key_data(data, r.old_key, r.new_key).data,
              ret |-> rename_key_data(data, r.old_key, r.new_key).renamed,
              save |-> rename_key_data(data, r.old_key, r.new_key).renamed]}

\* a caller enters a mutating call: data = self._load()
call_load(c) ==
    /\ Calling
    /\ pc[c] = "idle"
    /\ \E r \in RaceRequests :
          req' = [req EXCEPT ![c] = r]
    /\ loc' = [loc EXCEPT ![c] = _load(file)]
    /\ pc' = [pc EXCEPT ![c] = "loaded"]
    /\ budget' = budget - 1
    /\ UNCHANGED <<file, op, args, ret, wrote, pre, seen, log>>
    /\ UNCHANGED <<files, databases, dropped, known>>


\* call_save reading the file again when it saves (load and save as one step)
call_save_reload(c) ==
    /\ pc[c] = "loaded"
    /\ \E o \in Outcomes(req[c], _load(file)) :
          /\ file' = IF o.save THEN _save(o.data) ELSE file
          /\ ret' = o.ret
          /\ wrote' = o.save
    /\ op' = req[c].op
    /\ args' = req[c]
    /\ pre' = loc[c]
    /\ log' = Append(log, [caller |-> c, req |-> req[c]])
    /\ pc' = [pc EXCEPT ![c] = "idle"]
    /\ UNCHANGED <<budget, seen, req, loc, files, databases, dropped, known>>

\* the caller works on its data and ends the call: self._save(data); return
call_save(c) ==
    /\ pc[c] = "loaded"
    /\ \E o \in Outcomes(req[c], loc[c]) :
          /\ file' = IF o.save THEN _save(o.data) ELSE file
          /\ ret' = o.ret
          /\ wrote' = o.save
    /\ op' = req[c].op
    /\ args' = req[c]
    /\ pre' = loc[c]
    /\ log' = Append(log, [caller |-> c, req |-> req[c]])
    /\ pc' = [pc EXCEPT ![c] = "idle"]
    /\ UNCHANGED <<budget, seen, req, loc, files, databases, dropped, known>>

InitRace == InitWith({<<>>, << D2("a", one, "b", two) >>}, MaxRaceCalls)

NextRace ==
    \/ \E c \in Callers : call_load(c)
    \/ \E c \in Callers : call_save(c)

SpecRace == InitRace /\ [][NextRace]_vars

\* sort applied to the tables of at most MaxSortRows rows over SortRows
InitSort == InitWith(SortTables, 1)

NextSort == sort

SpecSort == InitSort /\ [][NextSort]_vars

\* the operations that only read, applied to the tables of at most
\* MaxReadRows rows over ReadRows
InitRead == InitWith(ReadTables, 1)

NextRead ==
    \/ get_all
    \/ find_by
    \/ sort
    \/ sort_columns
    \/ sort_columns_by_order

SpecRead == InitRead /\ [][NextRead]_vars

---------------------------------------------------------------------------
(* PyStoreManager: one manager on one directory, used by one caller.  The  *)
(* directory may hold tables when the manager is constructed (__init__,    *)
(* line 29: os.makedirs(exist_ok=True) keeps what is there); the cache     *)
(* self.databases starts empty (line 30).                                  *)

\* tables found in t.json when the manager is constructed
ManagerTables ==
    { <<>>,
      << D2("a", two, "b", one), D2("a", one, "b", two) >>,
      << D1("a", one), D1("a", PyNone), D1("a", x) >>,
      << D2("b", PyNone, "a", two), D2("a", PyNone, "c", two), D1("b", one) >>,
      << D1("a", x), D1("b", one) >> }

\* the directories the manager is constructed on: t.json absent or holding
\* one of ManagerTables, u.json absent or holding one row
ManagerFiles ==
    { [name \in Names |-> IF name = "t" THEN ft ELSE fu] :
        ft \in {Absent} \cup {Stored(_save(table)) : table \in ManagerTables},
        fu \in {Absent, Stored(_save(<< D1("a", one) >>))} }

InitManager ==
    /\ files \in ManagerFiles
    /\ databases = {}
    /\ dropped = [name \in Names |-> <<>>]
    /\ known = [name \in Names |-> IF files[name].exists THEN "found" ELSE "none"]
    /\ op = "init"
    /\ args = <<>>
    /\ ret = <<>>
    /\ wrote = FALSE
    /\ pre = [files |-> files, databases |-> databases]
    /\ budget = MaxManagerCalls
    /\ file = <<>>
    /\ seen = {}
    /\ Idle

\* the arguments of the manager's pass-through calls
ManagerSortKeys == {"a", "b"}
ManagerIndexes == {<<-1, FALSE>>, <<0, FALSE>>, <<0, TRUE>>, <<2, FALSE>>, <<3, TRUE>>}
ManagerOrders == {o \in SequenceOrders : o.val \in {<<"c", "a">>, <<"b", "d">>, <<"a", "b">>}}
ManagerRenames == {<<"a", "b">>, <<"b", "c">>}

\* PyStoreJSONDB.__init__, lines 29-32: write [] when there is no file
PyStoreJSONDB_init(fs, name) ==
    IF fs[name].exists THEN fs ELSE [fs EXCEPT ![name] = Stored(_save(<<>>))]

\* get_database, lines 43-46: the directory after the call
get_database_files(fs, cache, name) ==
    IF name \notin cache THEN PyStoreJSONDB_init(fs, name) ELSE fs

\* db._load() of a store the manager returned: open() fails without a file
FileNotFound == [error |-> "FileNotFoundError", rows |-> <<>>]

\* the pass-through that does not call db._save
Persist_none(opened, name, r) == opened

\* db._save(sorted_data), lines 103, 118, 134: reached when db.sort* returned
Persist(opened, name, r) ==
    IF r.error = "" THEN [opened EXCEPT ![name] = Stored(_save(r.rows))] ELSE opened

\* what every completed call on the manager records
Returned(name, a, r, w) ==
    /\ budget' = budget - 1
    /\ op' = name
    /\ args' = a
    /\ ret' = r
    /\ wrote' = w
    /\ pre' = [files |-> files, databases |-> databases]
    /\ UNCHANGED <<file, seen, pc, req, loc, log>>

\* the name has been given a store by this manager
Resolved(name) == [known EXCEPT ![name] = "resolved"]

get_database ==
    /\ Calling
    /\ \E name \in Names :
        /\ files' = get_database_files(files, databases, name)
        /\ databases' = databases \cup {name}
        /\ known' = Resolved(name)
        /\ UNCHANGED dropped
        /\ Returned("get_database", [name |-> name], name, ~files[name].exists)

\* create_database writing [] whether the file exists or not
create_database_truncate ==
    /\ Calling
    /\ \E name \in Names :
        /\ files' = [files EXCEPT ![name] = Stored(_save(<<>>))]
        /\ databases' = databases \cup {name}
        /\ known' = Resolved(name)
        /\ UNCHANGED dropped
        /\ Returned("create_database", [name |-> name], name, TRUE)

create_database ==
    /\ Calling
    /\ \E name \in Names :
        /\ files' = PyStoreJSONDB_init(
                        IF ~files[name].exists
                        THEN [files EXCEPT ![name] = Stored(_save(<<>>))]
                        ELSE files, name)
        /\ databases' = databases \cup {name}
        /\ known' = Resolved(name)
        /\ UNCHANGED dropped
        /\ Returned("create_database", [name |-> name], name, ~files[name].exists)

\* list_databases returning the names of the cache
list_databases_cached ==
    /\ Calling
    /\ \E listing \in IterOrders(databases) :
        /\ UNCHANGED <<files, databases, dropped, known>>
        /\ Returned("list_databases", <<>>, listing, FALSE)

\* list_databases, lines 68-72; os.listdir yields the files in any order
list_databases ==
    /\ Calling
    /\ \E listing \in IterOrders({name \in Names : files[name].exists}) :
        /\ UNCHANGED <<files, databases, dropped, known>>
        /\ Returned("list_databases", <<>>, listing, FALSE)

\* delete_database without the eviction of lines 85-86
delete_database_keep_cache ==
    /\ Calling
    /\ \E name \in Names :
        IF files[name].exists
        THEN /\ files' = [files EXCEPT ![name] = Absent]
             /\ UNCHANGED databases
             /\ dropped' = [dropped EXCEPT ![name] = _load(files[name].doc)]
             /\ known' = [known EXCEPT ![name] = "none"]
             /\ Returned("delete_database", [name |-> name], TRUE, TRUE)
        ELSE /\ UNCHANGED <<files, databases, dropped, known>>
             /\ Returned("delete_database", [name |-> name], FALSE, FALSE)

\* delete_database evicting the name and leaving the file in the directory
delete_database_keep_file ==
    /\ Calling
    /\ \E name \in Names :
        IF files[name].exists
        THEN /\ UNCHANGED files
             /\ databases' = databases \ {name}
             /\ dropped' = [dropped EXCEPT ![name] = _load(files[name].doc)]
             /\ known' = [known EXCEPT ![name] = "none"]
             /\ Returned("delete_database", [name |-> name], TRUE, TRUE)
        ELSE /\ UNCHANGED <<files, databases, dropped, known>>
             /\ Returned("delete_database", [name |-> name], FALSE, FALSE)

\* delete_database, lines 82-88
delete_database ==
    /\ Calling
    /\ \E name \in Names :
        IF files[name].exists
        THEN /\ files' = [files EXCEPT ![name] = Absent]
             /\ databases' = databases \ {name}
             /\ dropped' = [dropped EXCEPT ![name] = _load(files[name].doc)]
             /\ known' = [known EXCEPT ![name] = "none"]
             /\ Returned("delete_database", [name |-> name], TRUE, TRUE)
        ELSE /\ UNCHANGED <<files, databases, dropped, known>>
             /\ Returned("delete_database", [name |-> name], FALSE, FALSE)

\* sort_database, lines 100-105
sort_database ==
    /\ Calling
    /\ \E name \in Names, key \in ManagerSortKeys, reverse \in BOOLEAN :
        LET opened == get_database_files(files, databases, name)
            r == IF opened[name].exists
                 THEN sort_data(_load(opened[name].doc), key, reverse)
                 ELSE FileNotFound
        IN  /\ files' = Persist(opened, name, r)
            /\ databases' = databases \cup {name}
            /\ known' = Resolved(name)
            /\ UNCHANGED dropped
            /\ Returned("sort_database",
                        [name |-> name, key |-> key, reverse |-> reverse],
                        r, r.error = "")

\* PyStoreManager.sort_columns, lines 115-120
manager_sort_columns ==
    /\ Calling
    /\ \E name \in Names, a \in ManagerIndexes :
        LET opened == get_database_files(files, databases, name)
            r == IF opened[name].exists
                 THEN sort_columns_data(_load(opened[name].doc), a[1], a[2])
                 ELSE FileNotFound
        IN  /\ files' = Persist(opened, name, r)
            /\ databases' = databases \cup {name}
            /\ known' = Resolved(name)
            /\ UNCHANGED dropped
            /\ Returned("manager_sort_columns",
                        [name |-> name, key_row_index |-> a[1], reverse |-> a[2]],
                        r, r.error = "")

\* sort_columns_by_list, lines 131-136
sort_columns_by_list ==
    /\ Calling
    /\ \E name \in Names, column_order \in ManagerOrders :
        LET opened == get_database_files(files, databases, name)
            r == IF opened[name].exists
                 THEN sort_columns_by_order_data(_load(opened[name].doc), column_order)
                 ELSE FileNotFound
        IN  /\ files' = Persist(opened, name, r)
            /\ databases' = databases \cup {name}
            /\ known' = Resolved(name)
            /\ UNCHANGED dropped
            /\ Returned("sort_columns_by_list",
                        [name |-> name, column_order |-> column_order],
                        r, r.error = "")

\* rename_column, lines 147-148
rename_column ==
    /\ Calling
    /\ \E name \in Names, p \in ManagerRenames :
        LET opened == get_database_files(files, databases, name)
            r == rename_key_data(_load(opened[name].doc), p[1], p[2])
        IN  /\ opened[name].exists
            /\ files' = IF r.renamed
                         THEN [opened EXCEPT ![name] = Stored(_save(r.data))]
                         ELSE opened
            /\ databases' = databases \cup {name}
            /\ known' = Resolved(name)
            /\ UNCHANGED dropped
            /\ Returned("rename_column",
                        [name |-> name, old_key |-> p[1], new_key |-> p[2]],
                        r.renamed, r.renamed)

NextManager ==
    \/ get_database
    \/ create_database
    \/ list_databases
    \/ delete_database
    \/ sort_database
    \/ manager_sort_columns
    \/ sort_columns_by_list
    \/ rename_column

SpecManager == InitManager /\ [][NextManager]_vars

---------------------------------------------------------------------------
(* One manager and the stores it returned: db = manager.get_database(name) *)
(* followed by calls on db and by the manager's pass-through calls on the  *)
(* same name.  The calls start when manager.get_database("t") has returned *)
(* the first store: t.json is there (written as [] if it was not, line 30  *)
(* of PyStoreJSON.py) and "t" is cached.  No store is deleted here, so the *)
(* file of a cached name is there when db loads it.                        *)

\* the arguments of the calls made on db
StoreInserts ==
    { [isdict |-> TRUE,  val |-> D2("a", two, "c", PyNone)],
      [isdict |-> FALSE, val |-> << D1("a", one), D1("b", one) >>],
      [isdict |-> FALSE, val |-> <<>>] }
StorePredicates == { <<"a", one>>, <<"a", two>>, <<"b", PyNone>> }
StorePatches == { D1("b", PyNone), D1("c", one), D2("c", PyNone, "a", PyNone) }
StoreBatches ==
    { [istuple |-> FALSE, val |-> <<>>],
      [istuple |-> FALSE,
       val |-> << Condition("a", one, D1("a", two)), Condition("a", two, D1("b", PyNone)) >>] }

InitStores ==
    /\ files \in {get_database_files(fs, {}, "t") : fs \in ManagerFiles}
    /\ databases = {"t"}
    /\ dropped = [name \in Names |-> <<>>]
    /\ known = [name \in Names |->
                  IF name = "t" THEN "resolved"
                  ELSE IF files[name].exists THEN "found" ELSE "none"]
    /\ op = "init"
    /\ args = <<>>
    /\ ret = <<>>
    /\ wrote = FALSE
    /\ pre = [files |-> files, databases |-> databases]
    /\ budget = MaxStoreCalls
    /\ file = <<>>
    /\ seen = {}
    /\ Idle

\* db.insert(row) on the store of a cached name
db_insert ==
    /\ Calling
    /\ \E name \in databases, row \in StoreInserts :
        LET data == _load(files[name].doc)
            rows == NormalizeRows(row)
        IN  /\ \E order \in IterOrders(AllKeys(data) \cup AllKeys(rows)) :
                   files' = [files EXCEPT
                                ![name] = Stored(_save(insert_data(data, rows, order)))]
            /\ UNCHANGED <<databases, dropped, known>>
            /\ Returned("db_insert", [name |-> name, row |-> row], PyNone, TRUE)

\* db.update_by(key, value, updates)
db_update_by ==
    /\ Calling
    /\ \E name \in databases, p \in StorePredicates, updates \in StorePatches :
        LET data == _load(files[name].doc)
            new_keys == DictKeys(updates) \ AllKeys(data)
        IN  \E order \in IterOrders(new_keys) :
                LET r == update_by_data(data, p[1], p[2], updates, order)
                IN  /\ files' = [files EXCEPT ![name] = Stored(_save(r.data))]
                    /\ UNCHANGED <<databases, dropped, known>>
                    /\ Returned("db_update_by",
                                [name |-> name, key |-> p[1], value |-> p[2],
                                 updates |-> updates],
                                r.count, TRUE)

\* db.batch_update_by(conditions)
db_batch_update_by ==
    /\ Calling
    /\ \E name \in databases, conditions \in StoreBatches :
        LET data == _load(files[name].doc)
            conds == NormalizeConditions(conditions)
            new_keys == ConditionKeys(conds) \ AllKeys(data)
        IN  \E order \in IterOrders(new_keys) :
                LET r == batch_update_by_data(data, conds, order)
                IN  /\ files' = [files EXCEPT ![name] = Stored(_save(r.data))]
                    /\ UNCHANGED <<databases, dropped, known>>
                    /\ Returned("db_batch_update_by",
                                [name |-> name, conditions |-> conditions],
                                r.count, TRUE)

\* db.delete_by(key, value)
db_delete_by ==
    /\ Calling
    /\ \E name \in databases, p \in StorePredicates :
        LET data == _load(files[name].doc)
            r == delete_by_data(data, p[1], p[2])
        IN  /\ files' = [files EXCEPT ![name] = Stored(_save(r.data))]
            /\ UNCHANGED <<databases, dropped, known>>
            /\ Returned("db_delete_by", [name |-> name, key |-> p[1], value |-> p[2]],
                        r.count, TRUE)

\* db.rename_key(old_key, new_key)
db_rename_key ==
    /\ Calling
    /\ \E name \in databases, p \in ManagerRenames :
        LET data == _load(files[name].doc)
            r == rename_key_data(data, p[1], p[2])
        IN  /\ files' = IF r.renamed
                         THEN [files EXCEPT ![name] = Stored(_save(r.data))]
                         ELSE files
            /\ UNCHANGED <<databases, dropped, known>>
            /\ Returned("db_rename_key",
                        [name |-> name, old_key |-> p[1], new_key |-> p[2]],
                        r.renamed, r.renamed)

NextStores ==
    \/ get_database
    \/ db_insert
    \/ db_update_by
    \/ db_batch_update_by
    \/ db_delete_by
    \/ db_rename_key
    \/ sort_database
    \/ manager_sort_columns
    \/ sort_columns_by_list

SpecStores == InitStores /\ [][NextStores]_vars

---------------------------------------------------------------------------
(* Properties *)

\* the stored table after the call
Now == _load(file)

\* the predicate match of the specification: row.get(key) == value, a row
\* without the key matching only the value null
Holds(row, key, value) ==
    \/ \E i \in DOMAIN row : row[i].k = key /\ row[i].v = value
    \/ value = PyNone /\ \A i \in DOMAIN row : row[i].k # key

\* the columns holding a non-null value in some row
NonNullColumns(data) ==
    {k \in AllKeys(data) : \E i \in DOMAIN data : ~Holds(data[i], k, PyNone)}

\* every column with a non-null value somewhere is a key of every row
SchemaClosed(data) ==
    \A k \in NonNullColumns(data) : \A i \in DOMAIN data : k \in DictKeys(data[i])

\* every row has the same key set
SameKeys(data) ==
    \A i, j \in DOMAIN data : DictKeys(data[i]) = DictKeys(data[j])

\* the i-th member (from 1) of a set of indices, in increasing order
NthOf(idx, n) == CHOOSE i \in idx : Cardinality({m \in idx : m < i}) = n - 1

\* the subsequence of data at the indices idx
SubSeqAt(data, idx) == [n \in 1..Cardinality(idx) |-> data[NthOf(idx, n)]]

\* two rows agree on the value of every column, a missing column read as null
SameCells(r1, r2) ==
    \A k \in DictKeys(r1) \cup DictKeys(r2) : DictGet(r1, k) = DictGet(r2, k)

Mutating == {"insert", "update_by", "batch_update_by", "delete_by"}

C2_InsertClosure ==
    op = "insert" =>
        /\ \A i \in DOMAIN Now : DictKeys(Now[i]) = seen
        /\ AllKeys(pre) \subseteq seen
        /\ Now # <<>> => AllKeys(Now) = seen

\* C2 witness: three inserts grew the schema to three columns, and a row
\* inserted first holds null in a column that arrived later
C2_Witness ==
    /\ op = "insert" /\ budget = 0 /\ Cardinality(seen) = 3 /\ Len(Now) >= 3
    /\ \E k \in seen : Holds(Now[1], k, PyNone) /\ ~Holds(Now[Len(Now)], k, PyNone)

\* C3: after update_by, batch_update_by and delete_by no stored row has a
\* column that is null or missing in every stored row; and a column that held
\* a non-null value in a row at call time has gone only if that row was
\* deleted or a patch of the call set the column to null.
C3_Pruned ==
    op \in {"update_by", "batch_update_by", "delete_by"} =>
        /\ \A k \in AllKeys(Now) : \E i \in DOMAIN Now : ~Holds(Now[i], k, PyNone)
        /\ \A k \in AllKeys(pre) \ AllKeys(Now) :
             \A i \in DOMAIN pre :
                ~Holds(pre[i], k, PyNone) =>
                    CASE op = "delete_by" -> Holds(pre[i], args.key, args.value)
                      [] op = "update_by" ->
                            /\ Holds(pre[i], args.key, args.value)
                            /\ \E m \in DOMAIN args.updates :
                                  args.updates[m] = Item(k, PyNone)
                      [] OTHER ->
                            \E c \in DOMAIN NormalizeConditions(args.conditions) :
                               \E m \in DOMAIN NormalizeConditions(args.conditions)[c].updates :
                                  NormalizeConditions(args.conditions)[c].updates[m]
                                      = Item(k, PyNone)

\* C3 witness (the 'obsolete' example): an update nulled the last non-null
\* value of a column of a two-row table, and the column left both rows
C3_Witness ==
    /\ op = "update_by" /\ Len(pre) = 2 /\ Len(Now) = 2
    /\ \E k \in AllKeys(pre) \ AllKeys(Now) :
          /\ \A i \in DOMAIN pre : k \in DictKeys(pre[i])
          /\ Cardinality({i \in DOMAIN pre : ~Holds(pre[i], k, PyNone)}) = 1
    /\ AllKeys(Now) # {}

\* C3 witness of the other half: nulling the column on one of two rows that
\* both hold it leaves the column on both rows
C3_Kept ==
    /\ op = "update_by" /\ Len(pre) = 2 /\ Len(Now) = 2
    /\ \E k \in AllKeys(Now) :
          /\ \A i \in DOMAIN pre : ~Holds(pre[i], k, PyNone)
          /\ \E m \in DOMAIN args.updates : args.updates[m] = Item(k, PyNone)
          /\ Holds(Now[1], k, PyNone) /\ ~Holds(Now[2], k, PyNone)
          /\ \A i \in DOMAIN Now : k \in DictKeys(Now[i])

\* C5: update_by returns the number of rows of the table at call time whose
\* value for the column equals the value (a missing column read as null),
\* whatever the patch.
C5_UpdateCount ==
    op = "update_by" =>
        ret = Cardinality({i \in DOMAIN pre : Holds(pre[i], args.key, args.value)})

\* C5 witness: a patch that overwrites the predicate column itself matched
\* two rows
C5_Witness ==
    /\ op = "update_by" /\ ret = 2
    /\ \E m \in DOMAIN args.updates :
          args.updates[m].k = args.key /\ args.updates[m].v # args.value

\* C5 witness: a patch that changes nothing still counts the matched row
C5_NoOp == op = "update_by" /\ ret >= 1 /\ Now = pre /\ args.updates # <<>>

\* C6: delete_by removes exactly the rows matching the predicate, keeps the
\* others in their order (their cells unchanged, a pruned column read as
\* null), and returns the number of rows removed.
C6_Delete ==
    op = "delete_by" =>
        LET keep == {i \in DOMAIN pre : ~Holds(pre[i], args.key, args.value)}
        IN  /\ Len(Now) = Cardinality(keep)
            /\ \A n \in DOMAIN Now : SameCells(Now[n], pre[NthOf(keep, n)])
            /\ ret = Len(pre) - Len(Now)
            /\ ret = Cardinality(DOMAIN pre \ keep)

\* C6 witness: a delete by a column that one row lacks, with value null,
\* removed that row and kept the others
C6_Witness ==
    /\ op = "delete_by" /\ args.value = PyNone /\ ret >= 1 /\ Len(Now) >= 1
    /\ \E i \in DOMAIN pre : args.key \notin DictKeys(pre[i])

\* C7: find_by returns exactly the stored rows whose value for the key equals
\* the value, in stored order; a row without the key is returned if and only
\* if the value is null.
C7_FindBy ==
    op = "find_by" =>
        LET hit == {i \in DOMAIN pre : Holds(pre[i], args.key, args.value)}
        IN  /\ ret = SubSeqAt(pre, hit)
            /\ \A i \in DOMAIN pre :
                  args.key \notin DictKeys(pre[i]) => (i \in hit <=> args.value = PyNone)
            /\ Now = pre

\* C7 witness: a row without the key was returned for the value null, next
\* to a row that was not returned
C7_Witness ==
    /\ op = "find_by" /\ args.value = PyNone
    /\ \E j \in DOMAIN ret : args.key \notin DictKeys(ret[j])
    /\ Len(ret) < Len(pre)

\* one row taken through all the conditions in order: the row it becomes and
\* the number of conditions that matched it when they were applied
RECURSIVE RowThrough(_, _)
RowThrough(row, conditions) ==
    IF conditions = <<>> THEN [row |-> row, hits |-> 0]
    ELSE LET c == Head(conditions)
             m == Holds(row, c.key, c.value)
             rest == RowThrough(IF m THEN DictUpdate(row, c.updates) ELSE row,
                                Tail(conditions))
         IN  [row |-> rest.row, hits |-> rest.hits + (IF m THEN 1 ELSE 0)]

RECURSIVE SumHits(_, _)
SumHits(data, conditions) ==
    IF data = <<>> THEN 0
    ELSE RowThrough(Head(data), conditions).hits + SumHits(Tail(data), conditions)

\* C8: batch_update_by applies the conditions in order to one snapshot: each
\* row ends as it would after meeting the conditions one after the other
\* (each predicate evaluated on the row as earlier conditions left it), the
\* return value is the sum over conditions of the rows matched when applied,
\* and a column that no row had at call time and some patch names is a key of
\* every row afterwards unless it is null in every row.
C8_Batch ==
    op = "batch_update_by" =>
        LET conds == NormalizeConditions(args.conditions)
        IN  /\ Len(Now) = Len(pre)
            /\ ret = SumHits(pre, conds)
            /\ \A i \in DOMAIN Now : SameCells(Now[i], RowThrough(pre[i], conds).row)
            /\ \A k \in ConditionKeys(conds) \ AllKeys(pre) :
                  \/ \A i \in DOMAIN Now : k \in DictKeys(Now[i])
                  \/ \A i \in DOMAIN pre : Holds(RowThrough(pre[i], conds).row, k, PyNone)

\* C8 witness: a row matched the second condition only because the first
\* condition had changed it, and so counts twice
C8_Witness ==
    /\ op = "batch_update_by" /\ ~args.conditions.istuple /\ Len(args.conditions.val) = 2
    /\ \E i \in DOMAIN pre :
          /\ RowThrough(pre[i], args.conditions.val).hits = 2
          /\ ~Holds(pre[i], args.conditions.val[2].key, args.conditions.val[2].value)
    /\ ret > Len(pre)

\* C8 witness: a column introduced by a patch is on every row, null on the
\* rows the patch did not reach
C8_NewColumn ==
    /\ op = "batch_update_by"
    /\ \E k \in AllKeys(Now) \ AllKeys(pre) :
          /\ \A i \in DOMAIN Now : k \in DictKeys(Now[i])
          /\ \E i \in DOMAIN Now : Holds(Now[i], k, PyNone)

\* C9: rename_key(old, new) with old # new returns true iff some stored row
\* has old; a row that had old loses it and holds under new the value old
\* held; a row without old is unchanged and does not gain new; every other
\* column of every row is unchanged; a false return leaves the file unwritten.
C9_Rename ==
    (op = "rename_key" /\ args.old_key # args.new_key) =>
        LET old == args.old_key
            new == args.new_key
        IN  /\ ret = (\E i \in DOMAIN pre : old \in DictKeys(pre[i]))
            /\ Len(Now) = Len(pre)
            /\ \A i \in DOMAIN pre :
                  IF old \in DictKeys(pre[i])
                  THEN /\ old \notin DictKeys(Now[i])
                       /\ new \in DictKeys(Now[i])
                       /\ DictGet(Now[i], new) = DictGet(pre[i], old)
                       /\ DictKeys(Now[i]) \ {new} = DictKeys(pre[i]) \ {old, new}
                       /\ \A k \in DictKeys(pre[i]) \ {old, new} :
                             DictGet(Now[i], k) = DictGet(pre[i], k)
                  ELSE Now[i] = pre[i]
            /\ ~ret => (~wrote /\ Now = pre)
            /\ ret => wrote

\* C9 witness: a rename on a ragged table touched one row and left a row
\* without the old key as it was, without the new key
C9_Witness ==
    /\ op = "rename_key" /\ args.old_key # args.new_key /\ ret = TRUE
    /\ \E i, j \in DOMAIN pre :
          /\ args.old_key \in DictKeys(pre[i])
          /\ args.old_key \notin DictKeys(pre[j])
          /\ args.new_key \notin DictKeys(Now[j])

\* C9 witness of the false return: no row had the old key, nothing written
C9_NotRenamed ==
    op = "rename_key" /\ args.old_key # args.new_key /\ ret = FALSE /\ pre # <<>>

\* a returned sequence is the rows of data rearranged by perm
Rearranged(rows, data, perm) ==
    Len(rows) = Len(data) /\ \A n \in DOMAIN rows : rows[n] = data[perm[n]]

\* C4: sort returns a permutation of the stored rows ordered by the column's
\* value, rows with equal values in their original relative order, and rows
\* whose value is null or missing after all rows with a non-null value, for
\* reverse false and for reverse true.
C4_Sort ==
    (op = "sort" /\ ret.error = "") =>
        \E perm \in IterOrders(DOMAIN pre) :
            /\ Rearranged(ret.rows, pre, perm)
            /\ \A m, n \in DOMAIN perm :
                  m < n =>
                     LET vm == DictGet(pre[perm[m]], args.key)
                         vn == DictGet(pre[perm[n]], args.key)
                     IN  /\ vm = PyNone => vn = PyNone
                         /\ vm = vn => perm[m] < perm[n]
                         /\ (vm # PyNone /\ vn # PyNone /\ vm # vn) =>
                               IF args.reverse THEN PyLess(vn, vm) ELSE PyLess(vm, vn)

\* C4, what the code does: as C4_Sort, except that with reverse true the rows
\* whose value is null or missing come before all the others
C4_SortAsCoded ==
    (op = "sort" /\ ret.error = "") =>
        \E perm \in IterOrders(DOMAIN pre) :
            /\ Rearranged(ret.rows, pre, perm)
            /\ \A m, n \in DOMAIN perm :
                  m < n =>
                     LET vm == DictGet(pre[perm[m]], args.key)
                         vn == DictGet(pre[perm[n]], args.key)
                     IN  /\ ~args.reverse => (vm = PyNone => vn = PyNone)
                         /\ args.reverse => (vn = PyNone => vm = PyNone)
                         /\ vm = vn => perm[m] < perm[n]
                         /\ (vm # PyNone /\ vn # PyNone /\ vm # vn) =>
                               IF args.reverse THEN PyLess(vn, vm) ELSE PyLess(vm, vn)

\* a descending sort of a table with a null and a non-null value happened
C4_ReverseWithNull ==
    /\ op = "sort" /\ ret.error = "" /\ args.reverse
    /\ \E i, j \in DOMAIN pre :
          DictGet(pre[i], args.key) = PyNone /\ DictGet(pre[j], args.key) # PyNone

\* C10: a mutating call is a load step and a later save step, and the save
\* writes what the call made of the rows it loaded, whatever the file holds
\* by then: after an insert the file holds the loaded rows followed by the
\* given rows, after a delete_by the loaded rows less those it removed, after
\* the other calls as many rows as were loaded.  With two callers the writer
\* that saves last wins (C10_LostUpdate is reached).
C10_SavesFromSnapshot ==
    (log # <<>> /\ wrote) =>
        CASE op = "insert" ->
                LET rows == NormalizeRows(args.row)
                IN  /\ Len(Now) = Len(pre) + Len(rows)
                    /\ \A i \in DOMAIN pre : SameCells(Now[i], pre[i])
                    /\ \A j \in DOMAIN rows : SameCells(Now[Len(pre) + j], rows[j])
          [] op = "delete_by" ->
                /\ Len(Now) = Len(pre) - ret
                /\ ret = Cardinality({i \in DOMAIN pre :
                                        Holds(pre[i], args.key, args.value)})
          [] OTHER -> Len(Now) = Len(pre)

\* C10 witness: two callers each completed an insert of a different row into
\* the table that started empty, and the file holds one row only, the row of
\* the caller that saved last: the other insert is lost
C10_LostUpdate ==
    /\ \A c \in Callers : pc[c] = "idle"
    /\ Len(log) = 2
    /\ log[1].req.op = "insert" /\ log[2].req.op = "insert"
    /\ log[1].caller # log[2].caller
    /\ log[1].req.row # log[2].req.row
    /\ Len(Now) = 1
    /\ SameCells(Now[1], log[2].req.row.val)


\* the position of a key in a row
IndexOfKey(row, k) == CHOOSE i \in DOMAIN row : row[i].k = k

\* the names a column_order argument lists
Listed(column_order) ==
    IF column_order.kind = "dict"
    THEN {column_order.val[i].k : i \in DOMAIN column_order.val}
    ELSE {column_order.val[i] : i \in DOMAIN column_order.val}

\* column_order lets k1 come before k2: as a list it names k1 at a position
\* not after one naming k2; as a mapping it gives k1 a priority not greater
ListedBefore(column_order, k1, k2) ==
    IF column_order.kind = "dict"
    THEN \E i, j \in DOMAIN column_order.val :
            /\ column_order.val[i].k = k1 /\ column_order.val[j].k = k2
            /\ column_order.val[i].v <= column_order.val[j].v
    ELSE \E i, j \in DOMAIN column_order.val :
            column_order.val[i] = k1 /\ column_order.val[j] = k2 /\ i <= j

\* two rows have the same keys with the same values, in whatever key order
SameItems(r1, r2) ==
    /\ Len(r1) = Len(r2)
    /\ DictKeys(r1) = DictKeys(r2)
    /\ \A i \in DOMAIN r1 : r1[i].v = r2[IndexOfKey(r2, r1[i].k)].v

\* C11: sort_columns_by_order(order) with a list or a mapping returns as many
\* rows as are stored, in stored order; each returned row has exactly the keys
\* and values of the stored row (also when order names a column no row has);
\* in each row the listed keys come first, in the priority of order, and the
\* unlisted keys follow in their original relative order.
C11_ByOrder ==
    (op = "sort_columns_by_order" /\ args.column_order.kind \in {"list", "dict"}) =>
        /\ ret.error = ""
        /\ Len(ret.rows) = Len(pre)
        /\ \A i \in DOMAIN pre :
              /\ SameItems(ret.rows[i], pre[i])
              /\ \A m, n \in DOMAIN ret.rows[i] :
                    m < n =>
                       LET km == ret.rows[i][m].k
                           kn == ret.rows[i][n].k
                           listed == Listed(args.column_order)
                       IN  /\ kn \in listed => km \in listed
                           /\ (km \in listed /\ kn \in listed) =>
                                 ListedBefore(args.column_order, km, kn)
                           /\ (km \notin listed /\ kn \notin listed) =>
                                 IndexOfKey(pre[i], km) < IndexOfKey(pre[i], kn)

\* C11 witness: the order names a column no row has; a row with one listed
\* and two unlisted keys came back with the listed key moved to the front
C11_Witness ==
    /\ op = "sort_columns_by_order" /\ ret.error = ""
    /\ Listed(args.column_order) \ AllKeys(pre) # {}
    /\ \E i \in DOMAIN pre :
          /\ Len(pre[i]) = 3
          /\ Cardinality(DictKeys(pre[i]) \ Listed(args.column_order)) = 2
          /\ pre[i][3].k = ret.rows[i][1].k

\* the order came as a mapping giving two keys of a row the same priority
C11_EqualPriority ==
    /\ op = "sort_columns_by_order" /\ args.column_order.kind = "dict"
    /\ \E i \in DOMAIN pre : \E m, n \in DOMAIN args.column_order.val :
          /\ m # n
          /\ args.column_order.val[m].v = args.column_order.val[n].v
          /\ {args.column_order.val[m].k, args.column_order.val[n].k}
                \subseteq DictKeys(pre[i])

ReadOnly == {"get_all", "find_by", "sort", "sort_columns", "sort_columns_by_order"}

\* C13: get_all, find_by, sort, sort_columns and sort_columns_by_order do not
\* write: after the call, returned normally or failed, the stored rows are the
\* rows stored at call time, with the same values, row order and key order.
C13_ReadOnly ==
    op \in ReadOnly => (Now = pre /\ ~wrote)

\* C13 witness: sort_columns returned rows that differ from the stored ones
C13_Witness ==
    /\ op = "sort_columns" /\ ret.error = "" /\ ret.rows # pre /\ Now = pre

\* C13 witness of the failed calls: each of the three errors on a stored
\* table with rows
C13_OnError ==
    /\ op \in {"sort", "sort_columns", "sort_columns_by_order"}
    /\ ret.error # "" /\ pre # <<>>


\* the rows of a table of the directory; no rows when there is no file
RowsOf(f) == IF f.exists THEN _load(f.doc) ELSE <<>>

\* the names a listing holds
Range(listing) == {listing[i] : i \in DOMAIN listing}

Persisting == {"sort_database", "manager_sort_columns", "sort_columns_by_list"}

\* C14: after a successful sort_database, sort_columns or sort_columns_by_list
\* of the manager the table's file holds exactly the rows the call returned;
\* the rows sort_database stores are the rows stored before, rearranged.
C14_Persist ==
    (op \in Persisting /\ ret.error = "") =>
        /\ files[args.name].exists
        /\ _load(files[args.name].doc) = ret.rows
        /\ op = "sort_database" =>
              \E perm \in IterOrders(DOMAIN RowsOf(pre.files[args.name])) :
                 Rearranged(ret.rows, RowsOf(pre.files[args.name]), perm)

\* C14 witness: sort_database changed the order of the rows of a table, and
\* the file holds the new order
C14_Witness ==
    /\ op = "sort_database" /\ ret.error = ""
    /\ Len(ret.rows) >= 2
    /\ ret.rows # RowsOf(pre.files[args.name])
    /\ RowsOf(files[args.name]) = ret.rows

\* the manager's sort_columns stored rows that lost a column of the table
C14_ColumnLost ==
    /\ op = "manager_sort_columns" /\ ret.error = ""
    /\ AllKeys(RowsOf(pre.files[args.name])) \ AllKeys(RowsOf(files[args.name])) # {}

\* C15: delete_database(name) on a name with a file removes the file, takes
\* the name out of the cache and returns true; on a name without a file it
\* returns false and leaves every file of the directory as it was.
C15_DeleteDatabase ==
    op = "delete_database" =>
        IF pre.files[args.name].exists
        THEN /\ ret = TRUE
             /\ ~files[args.name].exists
             /\ args.name \notin databases
        ELSE /\ ret = FALSE
             /\ files = pre.files

\* C15 witness: the deleted table had rows and was cached when deleted
C15_Witness ==
    /\ op = "delete_database" /\ ret = TRUE
    /\ args.name \in pre.databases
    /\ RowsOf(pre.files[args.name]) # <<>>

\* C15 witness of the false return, next to another table that has rows
C15_NotThere ==
    /\ op = "delete_database" /\ ret = FALSE
    /\ \E name \in Names : RowsOf(files[name]) # <<>>

Resolving == {"get_database", "create_database"}

\* C16: create_database(name) and get_database(name), cached or not, leave
\* an existing file of the name exactly as it is; without a file, the file
\* exists afterwards and holds the empty table.
C16_NoTruncation ==
    op \in Resolving =>
        IF pre.files[args.name].exists
        THEN files[args.name] = pre.files[args.name]
        ELSE files[args.name].exists /\ _load(files[args.name].doc) = <<>>

\* C16 witness: create_database on a table with rows that was not cached
C16_Witness ==
    /\ op = "create_database"
    /\ args.name \notin pre.databases
    /\ RowsOf(pre.files[args.name]) # <<>>
    /\ RowsOf(files[args.name]) = RowsOf(pre.files[args.name])

\* C16 witness: get_database on a cached table with rows
C16_Cached ==
    /\ op = "get_database"
    /\ args.name \in pre.databases
    /\ RowsOf(files[args.name]) # <<>>

C17_Found ==
    /\ op = "list_databases"
    /\ \E i \in DOMAIN ret : known[ret[i]] = "found" /\ ret[i] \notin databases

\* C18: after delete_database(name) returned true the name has no file, and
\* a name without a file that is then resolved or created (by get_database,
\* create_database or a pass-through call) gets the empty table, whatever
\* rows it held when it was deleted: a file never comes into being with rows.
C18_Lifecycle ==
    /\ (op = "delete_database" /\ ret = TRUE) => ~files[args.name].exists
    /\ \A name \in Names : known[name] = "none" => ~files[name].exists
    /\ \A name \in Names :
          (files[name].exists /\ ~pre.files[name].exists) => RowsOf(files[name]) = <<>>
    /\ (op \in Resolving /\ ~pre.files[args.name].exists) =>
          files[args.name] = Stored(_save(<<>>))

\* C18 witness: a table that had rows when it was deleted was resolved or
\* created again and is empty
C18_Witness ==
    /\ op \in Resolving
    /\ dropped[args.name] # <<>>
    /\ ~pre.files[args.name].exists
    /\ files[args.name].exists /\ RowsOf(files[args.name]) = <<>>

\* C19: the manager's sort_columns(name, i) fails with IndexError exactly
\* when i < 0 or i >= the number of rows of the table (every i on an empty
\* table); the failed call leaves the rows of every table as they were.
C19_IndexError ==
    op = "manager_sort_columns" =>
        LET rows == RowsOf(pre.files[args.name])
            i == args.key_row_index
        IN  /\ ret.error = "IndexError" <=> (i < 0 \/ i >= Len(rows))
            /\ ret.error = "IndexError" =>
                  /\ ~wrote
                  /\ \A name \in Names : RowsOf(files[name]) = RowsOf(pre.files[name])
                  /\ \A name \in Names :
                        pre.files[name].exists => files[name] = pre.files[name]

\* C19 witness: index -1 on a table with rows failed
C19_Witness ==
    /\ op = "manager_sort_columns" /\ ret.error = "IndexError"
    /\ args.key_row_index = -1
    /\ RowsOf(files[args.name]) # <<>>

\* C19 witness: index 0 on an empty table failed
C19_EmptyTable ==
    /\ op = "manager_sort_columns" /\ ret.error = "IndexError"
    /\ args.key_row_index = 0
    /\ pre.files[args.name] = Stored(_save(<<>>))

\* the failed call was made on a name without a file, and made the file
C19_Created ==
    /\ op = "manager_sort_columns" /\ ret.error = "IndexError"
    /\ ~pre.files[args.name].exists /\ files[args.name].exists

\* C20: sort_database(name, key) fails with ValueError when two rows hold
\* non-null values of different kinds (int, str) for key; it does not fail
\* when all the non-null values for key are of one kind, however many rows
\* hold null or lack key; a failed call leaves every file as it was.
C20_Incomparable ==
    op = "sort_database" =>
        LET rows == RowsOf(pre.files[args.name])
            kinds == {DictGet(rows[i], args.key).kind :
                        i \in {j \in DOMAIN rows : ~Holds(rows[j], args.key, PyNone)}}
        IN  /\ Cardinality(kinds) >= 2 => ret.error = "ValueError"
            /\ Cardinality(kinds) <= 1 => ret.error = ""
            /\ ret.error # "" => (files = pre.files /\ ~wrote)

\* C20 witness: an int, a null and a str in the column: the call failed and
\* the table is as it was
C20_Witness ==
    /\ op = "sort_database" /\ ret.error = "ValueError"
    /\ \E i \in DOMAIN RowsOf(files[args.name]) :
          Holds(RowsOf(files[args.name])[i], args.key, PyNone)
    /\ files = pre.files

\* C20 witness: nulls, a row without the column and values of one kind: the
\* call succeeded
C20_NullsSorted ==
    /\ op = "sort_database" /\ ret.error = ""
    /\ \E i, j, k \in DOMAIN ret.rows :
          /\ args.key \notin DictKeys(ret.rows[i])
          /\ args.key \in DictKeys(ret.rows[j]) /\ Holds(ret.rows[j], args.key, PyNone)
          /\ ~Holds(ret.rows[k], args.key, PyNone)


\* C21: after update_by(column, value, patch) the table has the same rows in
\* the same order; a row that matched holds the patch value, null included,
\* under every patch key whose column is still in the table, and the values
\* it had under its other keys (a column pruned from it held null); a row
\* that did not match has every non-null value it had, and the keys it gained
\* hold null.
C21_UpdateFrame ==
    op = "update_by" =>
        /\ Len(Now) = Len(pre)
        /\ \A i \in DOMAIN pre :
              IF Holds(pre[i], args.key, args.value)
              THEN /\ \A m \in DOMAIN args.updates :
                         args.updates[m].k \in AllKeys(Now) =>
                            \E n \in DOMAIN Now[i] : Now[i][n] = args.updates[m]
                   /\ \A k \in (DictKeys(pre[i]) \cup DictKeys(Now[i]))
                                  \ DictKeys(args.updates) :
                         DictGet(Now[i], k) = DictGet(pre[i], k)
              ELSE /\ \A n \in DOMAIN pre[i] :
                         pre[i][n].v # PyNone =>
                            \E m \in DOMAIN Now[i] : Now[i][m] = pre[i][n]
                   /\ \A m \in DOMAIN Now[i] :
                         Now[i][m].k \notin DictKeys(pre[i]) => Now[i][m].v = PyNone

\* C21 witness: the patch put null over a non-null value of the matched row,
\* in a column that stays because the row that did not match holds a value in
\* it, and that row is as it was
C21_Witness ==
    /\ op = "update_by" /\ Len(pre) = 2
    /\ \E i, j \in DOMAIN pre : \E m \in DOMAIN args.updates :
          /\ Holds(pre[i], args.key, args.value)
          /\ ~Holds(pre[j], args.key, args.value)
          /\ args.updates[m].v = PyNone
          /\ ~Holds(pre[i], args.updates[m].k, PyNone)
          /\ args.updates[m].k \in DictKeys(Now[i])
          /\ Holds(Now[i], args.updates[m].k, PyNone)
          /\ Now[j] = pre[j]

\* C21 witness: a row that did not match gained a column of the patch, null
C21_Gained ==
    /\ op = "update_by"
    /\ \E j \in DOMAIN pre : \E k \in DictKeys(args.updates) \ AllKeys(pre) :
          /\ ~Holds(pre[j], args.key, args.value)
          /\ k \in DictKeys(Now[j]) /\ Holds(Now[j], k, PyNone)

\* C22: insert(rows) leaves the stored rows first, in their order, each with
\* every value it had and null under the keys it gained, followed by the
\* given rows in their order, each with the values it was given and null
\* under every other column of the table.
C22_InsertAppends ==
    op = "insert" =>
        LET rows == NormalizeRows(args.row)
            columns == AllKeys(pre) \cup AllKeys(rows)
            Kept(new, old) ==
                /\ \A n \in DOMAIN old : \E m \in DOMAIN new : new[m] = old[n]
                /\ \A m \in DOMAIN new :
                      new[m].k \notin DictKeys(old) => new[m].v = PyNone
        IN  /\ Len(Now) = Len(pre) + Len(rows)
            /\ \A i \in DOMAIN pre : Kept(Now[i], pre[i])
            /\ \A j \in DOMAIN rows :
                  /\ Kept(Now[Len(pre) + j], rows[j])
                  /\ DictKeys(Now[Len(pre) + j]) = columns

\* C22 witness: two rows were inserted after two stored rows; a stored row
\* gained a column and a new row holds null in a column of the stored rows
C22_Witness ==
    /\ op = "insert" /\ Len(pre) >= 2 /\ Len(NormalizeRows(args.row)) = 2
    /\ \E i \in DOMAIN pre : DictKeys(Now[i]) # DictKeys(pre[i])
    /\ \E k \in AllKeys(pre) \ AllKeys(NormalizeRows(args.row)) :
          Holds(Now[Len(Now)], k, PyNone)

\* C23: after insert on any stored table, ragged ones included, every stored
\* row, old and new, has the same key set: the union of the keys of all the
\* rows stored before and of all the rows given.
C23_InsertCloses ==
    op = "insert" =>
        \A i \in DOMAIN Now :
            DictKeys(Now[i]) = AllKeys(pre) \cup AllKeys(NormalizeRows(args.row))

\* C23 witness: the stored rows had different key sets, the insert brought a
\* new column, and all rows have one key set afterwards
C23_Witness ==
    /\ op = "insert" /\ ~SameKeys(pre) /\ SameKeys(Now)
    /\ AllKeys(NormalizeRows(args.row)) \ AllKeys(pre) # {}
    /\ Len(Now) > Len(pre)

\* the ragged table was repaired by an insert of no rows
C23_NoRows ==
    op = "insert" /\ ~SameKeys(pre) /\ SameKeys(Now) /\ Len(Now) = Len(pre)


\* the outcomes of update_by called once per condition, in order, on the
\* stored table data: each call loads what the call before saved, and count
\* is the sum of the values returned
RECURSIVE UpdatesInTurn(_, _)
UpdatesInTurn(data, conditions) ==
    IF conditions = <<>> THEN { [data |-> data, count |-> 0] }
    ELSE LET c == Head(conditions)
             new_keys == DictKeys(c.updates) \ AllKeys(data)
             first == { update_by_data(data, c.key, c.value, c.updates, order) :
                           order \in IterOrders(new_keys) }
         IN  UNION { { [data |-> rest.data, count |-> r.count + rest.count] :
                          rest \in UpdatesInTurn(_load(_save(r.data)), Tail(conditions)) } :
                     r \in first }

\* C24 as stated: batch_update_by(conditions) leaves the same rows in the same
\* order, each with the same keys and the same values, and returns the same
\* total as update_by called once per condition in the same order.
C24_BatchAsUpdates ==
    op = "batch_update_by" =>
        \A out \in UpdatesInTurn(pre, NormalizeConditions(args.conditions)) :
            /\ ret = out.count
            /\ Len(Now) = Len(out.data)
            /\ \A i \in DOMAIN Now : SameItems(Now[i], out.data[i])

\* C24 as amended: batch_update_by(conditions) leaves the same rows in the
\* same order, each with the same value in every column when a column the
\* row lacks is read as null, and returns the same total as update_by called
\* once per condition in the same order.
C24_BatchAsUpdatesNullAbsent ==
    op = "batch_update_by" =>
        \A out \in UpdatesInTurn(pre, NormalizeConditions(args.conditions)) :
            /\ ret = out.count
            /\ Len(Now) = Len(out.data)
            /\ \A i \in DOMAIN Now : SameCells(Now[i], out.data[i])

\* C24 witness: two conditions, the second matching a row only as the first
\* left it, changed the table as the two update_by calls do
C24_Witness ==
    /\ op = "batch_update_by" /\ ~args.conditions.istuple
    /\ Len(args.conditions.val) = 2 /\ Now # pre
    /\ \E i \in DOMAIN pre :
          /\ RowThrough(pre[i], args.conditions.val).hits = 2
          /\ ~Holds(pre[i], args.conditions.val[2].key, args.conditions.val[2].value)
    /\ \E out \in UpdatesInTurn(pre, args.conditions.val) :
          \A i \in DOMAIN Now : SameItems(Now[i], out.data[i])

\* C24: with no condition batch_update_by still prunes, and a table in which
\* every row has the same keys lost a column that no update_by call touched
C24_EmptyListPrunes ==
    /\ op = "batch_update_by" /\ NormalizeConditions(args.conditions) = <<>>
    /\ SameKeys(pre) /\ AllKeys(Now) # AllKeys(pre)

\* C24: on a ragged table the second update_by call gave back to every row a
\* column its own pruning had removed, which batch_update_by leaves absent
C24_ColumnBack ==
    /\ op = "batch_update_by" /\ Len(NormalizeConditions(args.conditions)) = 2
    /\ \E out \in UpdatesInTurn(pre, NormalizeConditions(args.conditions)) :
          \E i \in DOMAIN Now : DictKeys(out.data[i]) \ DictKeys(Now[i]) # {}


\* the number of rows stored under a name; a name without a file stores none
RowCount(fs, name) == Len(RowsOf(fs[name]))

\* C25: a call changes the number of stored rows of the table it is made on
\* by what it adds or removes: insert of n rows adds n, delete_by removes as
\* many as it returns, and update_by, batch_update_by, rename_key and the
\* manager's sort_database, sort_columns and sort_columns_by_list leave the
\* number as it is; no call changes the number of rows of another table.
C25_RowCount ==
    op # "init" =>
        /\ \A name \in Names \ {args.name} :
              RowCount(files, name) = RowCount(pre.files, name)
        /\ RowCount(files, args.name) =
              CASE op = "db_insert" ->
                     RowCount(pre.files, args.name) + Len(NormalizeRows(args.row))
                [] op = "db_delete_by" -> RowCount(pre.files, args.name) - ret
                [] OTHER -> RowCount(pre.files, args.name)

\* C25 witness: update_by set the only column of a row to null, pruning
\* removed the column and the row is still there, without a column
C25_Witness ==
    /\ op = "db_update_by"
    /\ RowCount(files, args.name) > 0
    /\ \E i \in DOMAIN RowsOf(files[args.name]) :
          /\ RowsOf(files[args.name])[i] = <<>>
          /\ RowsOf(pre.files[args.name])[i] # <<>>

\* C25 witnesses: rows added, rows removed, and a sort through the manager
\* writing back a table of several rows
C25_Inserted ==
    op = "db_insert" /\ RowCount(files, args.name) = RowCount(pre.files, args.name) + 2

C25_Deleted ==
    op = "db_delete_by" /\ ret > 0 /\ RowCount(files, args.name) > 0

C25_Sorted ==
    /\ op \in Persisting /\ ret.error = ""
    /\ RowCount(files, args.name) >= 2
    /\ files[args.name] # pre.files[args.name]


\* C26: the manager's sort_columns(name, i) with a valid i on a table whose
\* rows all have the same keys leaves every stored row with the keys and the
\* values it had, in another key order at most; on any table, a row loses
\* the value of a key only when the reference row does not have that key.
C26_OnlyKeyOrder ==
    (op = "manager_sort_columns" /\ ret.error = "") =>
        LET before == RowsOf(pre.files[args.name])
            after  == RowsOf(files[args.name])
            reference_row == before[args.key_row_index + 1]
        IN  /\ Len(after) = Len(before)
            /\ SameKeys(before) =>
                  \A i \in DOMAIN before : SameItems(after[i], before[i])
            /\ \A i \in DOMAIN before : \A n \in DOMAIN before[i] :
                  (~\E m \in DOMAIN after[i] : after[i][m] = before[i][n])
                      => before[i][n].k \notin DictKeys(reference_row)

\* C26 witness: the rows of a table of two rows with the same keys were
\* written back with their keys in another order
C26_Witness ==
    /\ op = "manager_sort_columns" /\ ret.error = ""
    /\ Len(RowsOf(pre.files[args.name])) >= 2
    /\ SameKeys(RowsOf(pre.files[args.name]))
    /\ \A i \in DOMAIN RowsOf(files[args.name]) :
          /\ Len(RowsOf(files[args.name])[i]) >= 2
          /\ RowsOf(files[args.name])[i] # RowsOf(pre.files[args.name])[i]

\* C26 witness: a row lost a value it held under a key that the reference
\* row does not have
C26_Dropped ==
    /\ op = "manager_sort_columns" /\ ret.error = ""
    /\ \E i \in DOMAIN RowsOf(pre.files[args.name]) :
          \E n \in DOMAIN RowsOf(pre.files[args.name])[i] :
             /\ RowsOf(pre.files[args.name])[i][n].v # PyNone
             /\ RowsOf(pre.files[args.name])[i][n].k
                    \notin DictKeys(RowsOf(files[args.name])[i])
             /\ RowsOf(pre.files[args.name])[i][n].k
                    \notin DictKeys(RowsOf(pre.files[args.name])[args.key_row_index + 1])

=============================================================================
